---- MODULE Spec2Model ----
(***************************************************************************)
(* Model of the rate-limit record resolution and normalization engine of   *)
(* codex-ratelimit-vscode (services/ratelimitParser.ts), of its refresh    *)
(* scheduler (utils/updateStats.ts) and of the consumers of a snapshot.    *)
(*                                                                         *)
(* JavaScript values are modelled as records [k, v]: k is the kind of the  *)
(* value ("num", "inf" for +Infinity, "nan", "undefined", "other" for any  *)
(* non-number such as a string or null) and v the integer of a "num".      *)
(* A Date is its time value: Num(ms) or NaN (an Invalid Date).             *)
(* Instants are epoch milliseconds, the reset fields are epoch seconds.    *)
(***************************************************************************)
EXTENDS Integers, Sequences, FiniteSets

VARIABLES
    clock,      \* the wall clock, epoch ms: what new Date() / Date.now() reads
    record,     \* the winning EventRecord of the resolver, or NoRecord
    pc,         \* position of the running getRateLimitData call
    data,       \* the RateLimitData being assembled
    calcNow,    \* currentTime read inside calculateResetTime, per window
    result,     \* the ParseResult the running or last query resolved to
    fileLines,      \* parseSessionFile: the lines of the file being read
    readable,       \* parseSessionFile: whether readFile succeeds
    lines,          \* parseSessionFile: the lines left to scan
    latestRecord,   \* parseSessionFile: latestRecord
    latestTimestamp,\* parseSessionFile: latestTimestamp
    parsePc,        \* parseSessionFile: position
    parsed,         \* parseSessionFile: the returned value
    rootExists,     \* whether the session root directory exists
    files,          \* the files under the session root, by file name
    findPc,         \* position of the running findLatestTokenCountRecord call
    todo,           \* the sorted files the running loop has still to visit
    attemptedFiles, \* findLatestTokenCountRecord: attemptedFiles
    readLog,        \* the files handed to parseSessionFile, in order
    winner,         \* what findLatestTokenCountRecord returns
    logged,         \* the messages written to the log
    previous,       \* the snapshot the query before the running one returned
    isWindowFocused,\* updateStats.ts: isWindowFocused
    refreshTimer,   \* updateStats.ts: refreshTimer, a timer handle or undefined
    timers,         \* the interval timers that are set and not cleared
    refreshInterval,\* the setting codexRatelimit.refreshInterval
    started,        \* the number of updateStats calls started so far
    inflight,       \* the updateStats calls awaiting getRateLimitData
    shown           \* what the status bar shows: the updateStats call it is
                    \* the result of (scheduler), or its content (consumers)

normVars == <<clock, record, pc, data, calcNow, result>>
parseVars == <<fileLines, readable, lines, latestRecord, latestTimestamp, parsePc, parsed>>
resolveVars == <<rootExists, files, findPc, todo, attemptedFiles, readLog, winner, logged>>
uiVars == <<isWindowFocused, refreshTimer, timers, refreshInterval, started, inflight, shown>>
vars == <<normVars, parseVars, resolveVars, previous, uiVars>>

----------------------------------------------------------------------------
(* JavaScript values *)

Num(n) == [k |-> "num", v |-> n]
NaN == [k |-> "nan", v |-> 0]
Infinity == [k |-> "inf", v |-> 0]
Undefined == [k |-> "undefined", v |-> 0]
NonNumber == [k |-> "other", v |-> 0]
Null == [k |-> "null", v |-> 0]

\* typeof x === 'number'
IsNumberType(x) == x.k \in {"num", "inf", "nan"}

\* Number.isNaN(x)
IsNaN(x) == x.k = "nan"

\* x * c for a positive constant c
Times(x, c) ==
    IF x.k = "num" THEN Num(x.v * c)
    ELSE IF x.k = "inf" THEN Infinity
    ELSE NaN

\* x + y
Plus(x, y) ==
    IF x.k = "nan" \/ y.k = "nan" THEN NaN
    ELSE IF x.k = "inf" \/ y.k = "inf" THEN Infinity
    ELSE Num(x.v + y.v)

\* x - y, y finite or NaN
Minus(x, y) ==
    IF x.k = "nan" \/ y.k = "nan" THEN NaN
    ELSE IF x.k = "inf" THEN Infinity
    ELSE Num(x.v - y.v)

\* x < y on numbers: false as soon as one side is NaN
Less(x, y) ==
    IF x.k = "nan" \/ y.k = "nan" THEN FALSE
    ELSE IF x.k = "inf" THEN FALSE
    ELSE IF y.k = "inf" THEN TRUE
    ELSE x.v < y.v

\* x > y
Greater(x, y) == Less(y, x)

\* x <= y
LessEq(x, y) ==
    IF x.k = "nan" \/ y.k = "nan" THEN FALSE
    ELSE IF y.k = "inf" THEN TRUE
    ELSE IF x.k = "inf" THEN FALSE
    ELSE x.v <= y.v

\* Math.max(x, y): NaN if either is NaN
MathMax(x, y) ==
    IF x.k = "nan" \/ y.k = "nan" THEN NaN
    ELSE IF Less(x, y) THEN y ELSE x

\* Math.min(x, y): NaN if either is NaN
MathMin(x, y) ==
    IF x.k = "nan" \/ y.k = "nan" THEN NaN
    ELSE IF Less(y, x) THEN y ELSE x

\* new Date(t): the time value, NaN (Invalid Date) when t is not finite
NewDate(t) == IF t.k = "num" THEN t ELSE NaN

----------------------------------------------------------------------------
(* Percentages: the quotient of two numbers, kept exact as a fraction n/d  *)
(* in lowest terms, or NaN.                                                *)

RECURSIVE GCD(_, _)
GCD(a, b) == IF b = 0 THEN a ELSE GCD(b, a % b)

Pct(n, d) ==
    LET g == GCD(IF n < 0 THEN -n ELSE n, d)
    IN  [k |-> "num", n |-> n \div g, d |-> d \div g]
PctNaN == [k |-> "nan", n |-> 0, d |-> 1]

\* (x / y) * 100 for y > 0
QuotientTimes100(x, y) ==
    IF x.k = "nan" \/ y.k = "nan" THEN PctNaN
    ELSE IF x.k = "inf" /\ y.k = "inf" THEN PctNaN
    ELSE IF y.k = "inf" THEN Pct(0, 1)
    ELSE Pct(x.v * 100, y.v)

PctLess(p, q) ==
    IF p.k = "nan" \/ q.k = "nan" THEN FALSE ELSE p.n * q.d < q.n * p.d

\* Math.max(0, Math.min(100, p))
ClampPercent(p) ==
    IF p.k = "nan" THEN PctNaN
    ELSE LET m == IF PctLess(Pct(100, 1), p) THEN Pct(100, 1) ELSE p
         IN  IF PctLess(m, Pct(0, 1)) THEN Pct(0, 1) ELSE m

----------------------------------------------------------------------------
(* Timestamps of records: an ISO-8601 string with a Z suffix, modelled by  *)
(* its seconds and milliseconds, or a string that is no date.              *)

IsoString(sec, ms) == [k |-> "iso", sec |-> sec, ms |-> ms]
BadString == [k |-> "bad", sec |-> 0, ms |-> 0]

\* new Date(timestamp.replace('Z', '+00:00')): the instant in epoch ms
ParseTimestamp(s) ==
    IF s.k = "iso" THEN Num(s.sec * 1000 + s.ms) ELSE NaN

----------------------------------------------------------------------------
(* calculateResetTime *)

\* mutant: the relative offset is added in seconds to a time in milliseconds
ResolveResetTimeUnscaled(recordTimestamp, rateLimit) ==
    IF IsNumberType(rateLimit.resets_at) /\ ~IsNaN(rateLimit.resets_at)
    THEN NewDate(Times(rateLimit.resets_at, 1000))
    ELSE IF IsNumberType(rateLimit.resets_in_seconds) /\ ~IsNaN(rateLimit.resets_in_seconds)
    THEN NewDate(Plus(recordTimestamp, rateLimit.resets_in_seconds))
    ELSE Null

ResolveResetTime(recordTimestamp, rateLimit) ==
    IF IsNumberType(rateLimit.resets_at) /\ ~IsNaN(rateLimit.resets_at)
    THEN NewDate(Times(rateLimit.resets_at, 1000))
    ELSE IF IsNumberType(rateLimit.resets_in_seconds) /\ ~IsNaN(rateLimit.resets_in_seconds)
    THEN NewDate(Plus(recordTimestamp, Times(rateLimit.resets_in_seconds, 1000)))
    ELSE Null

\* mutant: only the missing reset instant is detected, not the Invalid Date
ResolutionFailsNullOnly(resetTime) == resetTime = Null

\* !resetTime || Number.isNaN(resetTime.getTime())
ResolutionFails(resetTime) == resetTime = Null \/ IsNaN(resetTime)

\* mutant: a reset instant equal to now counts as passed
IsOutdatedNotStrict(resetTime, currentTime) == LessEq(resetTime, currentTime)

IsOutdated(resetTime, currentTime) == Less(resetTime, currentTime)

\* mutant: the remaining seconds are rounded up instead of down
SecondsUntilResetCeil(resetTime, currentTime) ==
    MathMax(Num(0), Num(-((currentTime.v - resetTime.v) \div 1000)))

SecondsUntilReset(resetTime, currentTime) ==
    MathMax(Num(0), Num((resetTime.v - currentTime.v) \div 1000))

calculateResetTime(recordTimestamp, rateLimit, currentTime) ==
    LET resetTime == ResolveResetTime(recordTimestamp, rateLimit)
    IN  IF ResolutionFails(resetTime)
        THEN [resetTime |-> recordTimestamp, isOutdated |-> TRUE,
              secondsUntilReset |-> Num(0)]
        ELSE [resetTime |-> resetTime,
              isOutdated |-> IsOutdated(resetTime, currentTime),
              secondsUntilReset |-> SecondsUntilReset(resetTime, currentTime)]

----------------------------------------------------------------------------
(* getRateLimitData: one window block *)

\* mutant: any number is taken as the window, not only a positive one
WindowMinutesUnchecked(rawWindowMinutes) ==
    IF IsNumberType(rawWindowMinutes) THEN rawWindowMinutes ELSE Num(0)

WindowMinutes(rawWindowMinutes) ==
    IF IsNumberType(rawWindowMinutes) /\ Greater(rawWindowMinutes, Num(0))
    THEN rawWindowMinutes ELSE Num(0)

\* mutant: an outdated window is reported as not started
TimePercentOutdatedEmpty(windowSeconds, isOutdated, secondsUntilReset) ==
    IF LessEq(windowSeconds, Num(0)) THEN Pct(0, 1)
    ELSE IF isOutdated THEN Pct(0, 1)
    ELSE LET elapsedSeconds == Minus(windowSeconds, secondsUntilReset)
             boundedElapsedSeconds ==
                 MathMax(Num(0), MathMin(windowSeconds, elapsedSeconds))
         IN  QuotientTimes100(boundedElapsedSeconds, windowSeconds)

TimePercent(windowSeconds, isOutdated, secondsUntilReset) ==
    IF LessEq(windowSeconds, Num(0)) THEN Pct(0, 1)
    ELSE IF isOutdated THEN Pct(100, 1)
    ELSE LET elapsedSeconds == Minus(windowSeconds, secondsUntilReset)
             boundedElapsedSeconds ==
                 MathMax(Num(0), MathMin(windowSeconds, elapsedSeconds))
         IN  QuotientTimes100(boundedElapsedSeconds, windowSeconds)

\* mutant: used_percent is clamped to [0, 100]
UsedPercentClamped(rateLimit) ==
    MathMax(Num(0), MathMin(Num(100), rateLimit.used_percent))

UsedPercent(rateLimit) == rateLimit.used_percent

NormalizeWindow(recordTimestamp, rateLimit, currentTime) ==
    LET r == calculateResetTime(recordTimestamp, rateLimit, currentTime)
        windowMinutes == WindowMinutes(rateLimit.window_minutes)
        windowSeconds == Times(windowMinutes, 60)
        timePercent == TimePercent(windowSeconds, r.isOutdated, r.secondsUntilReset)
    IN  [used_percent |-> UsedPercent(rateLimit),
         time_percent |-> ClampPercent(timePercent),
         reset_time |-> r.resetTime,
         outdated |-> r.isOutdated,
         window_minutes |-> windowMinutes]

----------------------------------------------------------------------------
(* The inputs: the winning record of the resolver and the wall clock *)

RawWindow(up, ra, ris, wm) ==
    [used_percent |-> up, resets_at |-> ra, resets_in_seconds |-> ris,
     window_minutes |-> wm]

UsedPercents == {Num(-5), Num(150)}
ResetsAts == {Undefined, NonNumber, Infinity, Num(1800), Num(3600)}
ResetsInSeconds == {Undefined, Infinity, Num(1790), Num(1800)}
WindowMinutesValues ==
    {Undefined, NonNumber, Num(-5), Num(0), Num(1), Num(60), Infinity}

RawWindows ==
    {RawWindow(up, ra, ris, wm) :
        up \in UsedPercents, ra \in ResetsAts,
        ris \in ResetsInSeconds, wm \in WindowMinutesValues}

Timestamps == {IsoString(0, 0), IsoString(10, 500), BadString}

\* the whole epoch seconds of an instant
EpochSeconds(t) == t.v \div 1000

\* the descriptor that states the reset of w relative to the record timestamp
RelativeTwin(w, timestamp) ==
    RawWindow(w.used_percent, Undefined,
              Num(w.resets_at.v - EpochSeconds(ParseTimestamp(timestamp))),
              w.window_minutes)

HasTwin(w, timestamp) ==
    /\ w # Undefined
    /\ w.resets_at.k = "num"
    /\ w.resets_in_seconds = Undefined
    /\ timestamp.k = "iso"

SecondaryWindows(w, timestamp) ==
    {Undefined,
     RawWindow(Num(50), Num(1800), Num(3600), Num(60)),
     RawWindow(Num(50), Undefined, Undefined, Num(1))}
    \cup (IF HasTwin(w, timestamp) THEN {RelativeTwin(w, timestamp)} ELSE {})

\* an event_msg record with a token_count payload
TokenCountRecord(timestamp, info, rate_limits) ==
    [type |-> "event_msg", timestamp |-> timestamp,
     payload |-> [type |-> "token_count", info |-> info,
                  rate_limits |-> rate_limits]]

EventRecord(timestamp, rate_limits) ==
    TokenCountRecord(timestamp, Undefined, rate_limits)

NoRecord == Null

Records ==
    {EventRecord(ts, Undefined) : ts \in Timestamps}
    \cup UNION {{EventRecord(ts, [primary |-> p, secondary |-> s]) :
                     s \in SecondaryWindows(p, ts)} :
                <<ts, p>> \in Timestamps \X (RawWindows \cup {Undefined})}

ClockValues == {0, 1770000, 1800000, 1800200, 4000000}

----------------------------------------------------------------------------
(* getRateLimitData *)

\* mutant: a payload without rate_limits gets two zero-valued windows
RateLimitsOrZero(payload) ==
    IF payload.rate_limits = Undefined
    THEN [primary |-> RawWindow(Num(0), Undefined, Num(0), Num(0)),
          secondary |-> RawWindow(Num(0), Undefined, Num(0), Num(0))]
    ELSE payload.rate_limits

\* payload.rate_limits || {}
RateLimitsOf(payload) ==
    IF payload.rate_limits = Undefined
    THEN [primary |-> Undefined, secondary |-> Undefined]
    ELSE payload.rate_limits

createEmptyTokenUsage ==
    [input_tokens |-> 0, cached_input_tokens |-> 0, output_tokens |-> 0,
     reasoning_output_tokens |-> 0, total_tokens |-> 0]

\* x is null or undefined
IsNullish(x) == x = Undefined \/ x = Null

\* mutant: a payload with incomplete usage info gets zero for both usages
TotalUsageAllOrNothing(payload) ==
    IF IsNullish(payload.info) THEN createEmptyTokenUsage
    ELSE IF IsNullish(payload.info.total_token_usage)
            \/ IsNullish(payload.info.last_token_usage)
    THEN createEmptyTokenUsage
    ELSE payload.info.total_token_usage

\* info?.total_token_usage ?? createEmptyTokenUsage()
TotalUsage(payload) ==
    IF IsNullish(payload.info) THEN createEmptyTokenUsage
    ELSE IF IsNullish(payload.info.total_token_usage) THEN createEmptyTokenUsage
    ELSE payload.info.total_token_usage

\* info?.last_token_usage ?? createEmptyTokenUsage()
LastUsage(payload) ==
    IF IsNullish(payload.info) THEN createEmptyTokenUsage
    ELSE IF IsNullish(payload.info.last_token_usage) THEN createEmptyTokenUsage
    ELSE payload.info.last_token_usage

\* mutant: the reason names the missing session path
NotFoundNamesPath == [found |-> FALSE, data |-> Undefined,
                      error |-> "Session path does not exist"]

NotFound == [found |-> FALSE, data |-> Undefined,
             error |-> "No token_count events found in session files"]
\* mutant: found: true is returned without the snapshot
FoundWithoutData(d) == [found |-> TRUE, data |-> Undefined, error |-> Undefined]

Found(d) == [found |-> TRUE, data |-> d, error |-> Undefined]

NoReading == [primary |-> Undefined, secondary |-> Undefined]

\* the resolver is not part of the behaviour: its answer is given
NoResolver ==
    /\ rootExists = TRUE
    /\ files = <<>>
    /\ findPc = "off"
    /\ todo = <<>>
    /\ attemptedFiles = {}
    /\ readLog = <<>>
    /\ winner = Null
    /\ logged = {}

\* the scheduler is not part of the behaviour
NoUi ==
    /\ previous = Null
    /\ isWindowFocused = TRUE
    /\ refreshTimer = Undefined
    /\ timers = {}
    /\ refreshInterval = Undefined
    /\ started = 0
    /\ inflight = {}
    /\ shown = 0

\* file: the path of the winning file
FilePath == [k |-> "path", file |-> IF winner = Null THEN 0 ELSE winner.file]

\* lines 181-219: the resolver's answer, the record timestamp, current_time
StartQuery ==
    /\ pc = "idle"
    /\ calcNow' = NoReading
    /\ IF record = NoRecord
       THEN /\ result' = NotFound
            /\ UNCHANGED <<pc, data>>
       ELSE /\ data' = [record_timestamp |-> ParseTimestamp(record.timestamp),
                        current_time |-> Num(clock),
                        total_usage |-> TotalUsage(record.payload),
                        last_usage |-> LastUsage(record.payload),
                        file_path |-> FilePath,
                        primary |-> Undefined, secondary |-> Undefined]
            /\ result' = Null
            /\ pc' = "primary"
    /\ UNCHANGED <<clock, record, parseVars, resolveVars>>
    /\ UNCHANGED uiVars

\* a query of a process that keeps no account of the query before
BeginQuery == StartQuery /\ UNCHANGED previous

\* a query that follows another: the snapshot returned before is remembered
NextQuery ==
    /\ StartQuery
    /\ previous' = IF result # Null /\ result.found
                   THEN [data |-> result.data, calcNow |-> calcNow]
                   ELSE previous

\* lines 221-247
ProcessPrimary ==
    /\ pc = "primary"
    /\ LET primary == RateLimitsOf(record.payload).primary
       IN  IF primary # Undefined
           THEN /\ data' = [data EXCEPT !.primary =
                    NormalizeWindow(data.record_timestamp, primary, Num(clock))]
                /\ calcNow' = [calcNow EXCEPT !.primary = Num(clock)]
           ELSE UNCHANGED <<data, calcNow>>
    /\ pc' = "secondary"
    /\ UNCHANGED <<clock, record, result, parseVars, resolveVars>>
    /\ UNCHANGED <<previous, uiVars>>

\* lines 249-281
ProcessSecondary ==
    /\ pc = "secondary"
    /\ LET secondary == RateLimitsOf(record.payload).secondary
           d == IF secondary # Undefined
                THEN [data EXCEPT !.secondary =
                    NormalizeWindow(data.record_timestamp, secondary, Num(clock))]
                ELSE data
       IN  /\ data' = d
           /\ result' = Found(d)
           /\ calcNow' = IF secondary # Undefined
                         THEN [calcNow EXCEPT !.secondary = Num(clock)]
                         ELSE calcNow
    /\ pc' = "idle"
    /\ UNCHANGED <<clock, record, parseVars, resolveVars>>
    /\ UNCHANGED <<previous, uiVars>>

\* the wall clock moves on, also between two steps of a query
Tick ==
    /\ \E t \in ClockValues : t > clock /\ clock' = t
    /\ UNCHANGED <<record, pc, data, calcNow, result, parseVars, resolveVars>>
    /\ UNCHANGED <<previous, uiVars>>

Init ==
    /\ clock \in ClockValues
    /\ record \in Records \cup {NoRecord}
    /\ pc = "idle"
    /\ data = Undefined
    /\ calcNow = NoReading
    /\ result = Null
    /\ fileLines = <<>>
    /\ readable = TRUE
    /\ lines = <<>>
    /\ latestRecord = Null
    /\ latestTimestamp = Null
    /\ parsePc = "idle"
    /\ parsed = Null
    /\ NoResolver
    /\ NoUi

Next == BeginQuery \/ ProcessPrimary \/ ProcessSecondary \/ Tick

Spec == Init /\ [][Next]_vars

----------------------------------------------------------------------------
(* Properties of the snapshot returned by getRateLimitData *)

WindowNames == {"primary", "secondary"}

\* a query has returned found: true
Returned == result # Null /\ result.found

\* the raw descriptor of window w in the winning record
Raw(w) == RateLimitsOf(record.payload)[w]

\* window w is present in the returned snapshot
Present(w) == Returned /\ result.data[w] # Undefined

\* a reset field that is present, numeric and finite
Usable(x) == x.k = "num"

\* the reset instant of window w resolved to a valid instant
Resolved(w) ==
    ~ResolutionFails(ResolveResetTime(result.data.record_timestamp, Raw(w)))

\* the raw window_minutes is a positive number
PositiveWindow(w) ==
    \/ Raw(w).window_minutes.k = "inf"
    \/ Raw(w).window_minutes.k = "num" /\ Raw(w).window_minutes.v > 0

\* C1: the time_percent of each window present in a returned snapshot lies
\* in the closed range [0, 100].
C1_TimePercentInRange ==
    \A w \in WindowNames : Present(w) =>
        LET tp == result.data[w].time_percent
        IN  tp.k = "num" /\ 0 <= tp.n /\ tp.n <= 100 * tp.d

\* C2: for a window whose reset instant resolves, outdated is true exactly
\* when the reset instant is strictly before the instant the normalizer ran;
\* a reset instant equal to that instant is not outdated, and the record
\* timestamp plays no part.
C2_OutdatedIffResetBeforeNow ==
    \A w \in WindowNames : (Present(w) /\ Resolved(w)) =>
        /\ result.data[w].outdated = (result.data[w].reset_time.v < calcNow[w].v)
        /\ result.data[w].reset_time.v = calcNow[w].v => ~result.data[w].outdated

\* C2 witness: a resolved window normalized exactly at its reset instant, which
\* is later than the record timestamp, reported as not outdated.
C2_Witness ==
    /\ Present("primary") /\ Resolved("primary")
    /\ result.data.primary.reset_time = calcNow.primary
    /\ Less(result.data.record_timestamp, result.data.primary.reset_time)
    /\ ~result.data.primary.outdated

\* C3: the reset instant is resets_at when that field is numeric and finite;
\* otherwise record timestamp + resets_in_seconds when that field is numeric
\* and finite; resolution fails only when neither field is usable.
C3_ResolutionPreferenceOrder ==
    \A w \in WindowNames : Present(w) =>
        LET ts == result.data.record_timestamp
            got == result.data[w].reset_time
        IN  IF Usable(Raw(w).resets_at)
            THEN got = Num(Raw(w).resets_at.v * 1000)
            ELSE IF Usable(Raw(w).resets_in_seconds)
            THEN got = Plus(ts, Num(Raw(w).resets_in_seconds.v * 1000))
            ELSE got = ts /\ result.data[w].outdated

\* no reset field of window w is usable
NoUsableResetField(w) ==
    ~Usable(Raw(w).resets_at) /\ ~Usable(Raw(w).resets_in_seconds)

\* C4 as stated: when neither reset field is usable the window has reset_time
\* = record timestamp, outdated, time_percent 0 and window_minutes 0 whatever
\* the raw window_minutes is.
C4_FailureZeroesWindow ==
    \A w \in WindowNames : (Present(w) /\ NoUsableResetField(w)) =>
        /\ result.data[w].reset_time = result.data.record_timestamp
        /\ result.data[w].outdated
        /\ result.data[w].time_percent = Pct(0, 1)
        /\ result.data[w].window_minutes = Num(0)

\* C4 amended: when neither reset field is usable (or resolution fails for
\* any other reason) the window has reset_time = record timestamp and
\* outdated = true; window_minutes is the raw value and
\* time_percent is 100 if the raw window_minutes is a positive number, and
\* both are 0 otherwise.
C4_FailureKeepsWindowMinutes ==
    \A w \in WindowNames :
      (Present(w) /\ (NoUsableResetField(w) \/ ~Resolved(w))) =>
        /\ result.data[w].reset_time = result.data.record_timestamp
        /\ result.data[w].outdated
        /\ IF PositiveWindow(w)
           THEN /\ result.data[w].window_minutes = Raw(w).window_minutes
                /\ result.data[w].time_percent = Pct(100, 1)
           ELSE /\ result.data[w].window_minutes = Num(0)
                /\ result.data[w].time_percent = Pct(0, 1)

\* C4 witness: a window without usable reset fields and a 60-minute raw window.
C4_Witness ==
    /\ Present("primary") /\ NoUsableResetField("primary")
    /\ Raw("primary").resets_at = Infinity
    /\ Raw("primary").window_minutes = Num(60)
    /\ result.data.primary.time_percent = Pct(100, 1)

\* C5: a raw window_minutes that is absent, non-numeric, zero or negative
\* gives window_minutes 0 and time_percent 0, whatever the reset fields and
\* the outdated flag are; a positive number is used unchanged.
C5_WindowMinutesValidated ==
    \A w \in WindowNames : Present(w) =>
        IF PositiveWindow(w)
        THEN result.data[w].window_minutes = Raw(w).window_minutes
        ELSE /\ result.data[w].window_minutes = Num(0)
             /\ result.data[w].time_percent = Pct(0, 1)

\* C5 witness: a negative raw window_minutes on a resolved, outdated window.
C5_Witness ==
    /\ Present("primary") /\ Resolved("primary")
    /\ Raw("primary").window_minutes = Num(-5)
    /\ result.data.primary.outdated
    /\ result.data.primary.time_percent = Pct(0, 1)

\* the resolved reset instant of window w is before its evaluation instant
ResetBeforeNow(w) ==
    Resolved(w) /\ result.data[w].reset_time.v < calcNow[w].v

\* C6 as stated: every window whose resolved reset instant is before the
\* evaluation instant has outdated = true and time_percent = 100.
C6_OutdatedIsFull ==
    \A w \in WindowNames : (Present(w) /\ ResetBeforeNow(w)) =>
        /\ result.data[w].outdated
        /\ result.data[w].time_percent = Pct(100, 1)

\* C6 amended: every window with a positive raw window_minutes whose resolved
\* reset instant is before the evaluation instant has outdated = true and
\* time_percent = 100; with any other window_minutes it is outdated with
\* time_percent 0.
C6_OutdatedIsFullForPositiveWindow ==
    \A w \in WindowNames : (Present(w) /\ ResetBeforeNow(w)) =>
        /\ result.data[w].outdated
        /\ result.data[w].time_percent =
               IF PositiveWindow(w) THEN Pct(100, 1) ELSE Pct(0, 1)

\* C6 witness: a 60-minute window whose reset instant has passed.
C6_Witness ==
    /\ Present("primary") /\ ResetBeforeNow("primary")
    /\ Raw("primary").window_minutes = Num(60)
    /\ result.data.primary.time_percent = Pct(100, 1)

\* clamp((windowSeconds - secondsUntilReset) / windowSeconds * 100, 0, 100)
\* for a window of wm minutes resetting at resetMs, evaluated at nowMs
ExpectedTimePercent(wm, resetMs, nowMs) ==
    IF wm.k = "inf" THEN PctNaN
    ELSE LET windowSeconds == wm.v * 60
             floorSeconds == (resetMs - nowMs) \div 1000
             secondsUntilReset == IF floorSeconds < 0 THEN 0 ELSE floorSeconds
             elapsed100 == (windowSeconds - secondsUntilReset) * 100
         IN  IF elapsed100 < 0 THEN Pct(0, 1)
             ELSE IF elapsed100 > 100 * windowSeconds THEN Pct(100, 1)
             ELSE Pct(elapsed100, windowSeconds)

EquivalentPair ==
    /\ Present("primary") /\ Present("secondary")
    /\ HasTwin(Raw("primary"), record.timestamp)
    /\ Raw("secondary") = RelativeTwin(Raw("primary"), record.timestamp)
    /\ calcNow.primary = calcNow.secondary

Distance(a, b) == IF a < b THEN b - a ELSE a - b

\* C8 as stated: the two encodings of one reset instant yield the same reset
\* instant within 1 second, the same outdated flag and the same time_percent.
C8_EncodingsAgree ==
    EquivalentPair =>
        /\ Distance(result.data.primary.reset_time.v,
                    result.data.secondary.reset_time.v) <= 1000
        /\ result.data.primary.outdated = result.data.secondary.outdated
        /\ result.data.primary.time_percent = result.data.secondary.time_percent

\* C8 amended: the two encodings yield reset instants less than 1 second
\* apart (the relative one is later by the sub-second part of the record
\* timestamp); when the record timestamp is a whole number of seconds the
\* reset instants, the outdated flags and the time_percents are equal.
C8_EncodingsAgreeOnWholeSeconds ==
    EquivalentPair =>
        /\ result.data.secondary.reset_time.v - result.data.primary.reset_time.v
               = record.timestamp.ms
        /\ Distance(result.data.primary.reset_time.v,
                    result.data.secondary.reset_time.v) < 1000
        /\ record.timestamp.ms = 0 =>
               /\ result.data.primary.reset_time = result.data.secondary.reset_time
               /\ result.data.primary.outdated = result.data.secondary.outdated
               /\ result.data.primary.time_percent
                      = result.data.secondary.time_percent

\* C8 witness: an equivalent pair on a whole-second record timestamp, half way
\* through its 60-minute window.
C8_Witness ==
    /\ EquivalentPair
    /\ record.timestamp.ms = 0
    /\ ~result.data.secondary.outdated
    /\ result.data.secondary.time_percent = Pct(50, 1)

\* C9: the used_percent of each window of the snapshot is the raw used_percent
\* of the record's window, also below 0, above 100 and on outdated windows.
C9_UsedPercentPassedThrough ==
    \A w \in WindowNames : Present(w) =>
        result.data[w].used_percent = Raw(w).used_percent

\* C9 witness: an outdated window reporting 150 percent used beside one
\* reporting 50.
C9_Witness ==
    /\ Present("primary") /\ Present("secondary")
    /\ result.data.primary.outdated
    /\ result.data.primary.used_percent = Num(150)
    /\ result.data.secondary.used_percent = Num(50)

----------------------------------------------------------------------------
(* parseSessionFile: the lines of one session file *)

MaxLines == 3

\* a line of whitespace only, and a line JSON.parse rejects
BlankLine == [k |-> "blank"]
MalformedLine == [k |-> "malformed"]
\* a line holding the JSON of an object with these fields
JsonLine(type, payloadType, timestamp) ==
    [k |-> "json", type |-> type, payloadType |-> payloadType,
     timestamp |-> timestamp, info |-> Undefined, rate_limits |-> Undefined]
\* the line JSON.stringify writes for a record
LineOf(rec) ==
    [k |-> "json", type |-> rec.type, payloadType |-> rec.payload.type,
     timestamp |-> rec.timestamp, info |-> rec.payload.info,
     rate_limits |-> rec.payload.rate_limits]

LineTimestamps ==
    {IsoString(0, 0), IsoString(10, 500), IsoString(20, 0), BadString, Undefined}

FileLineValues ==
    {BlankLine, MalformedLine,
     JsonLine("response_item", "token_count", IsoString(30, 0)),
     JsonLine("event_msg", "agent_message", IsoString(30, 0))}
    \cup {JsonLine("event_msg", "token_count", ts) : ts \in LineTimestamps}

Files == UNION {[1..n -> FileLineValues] : n \in 0..MaxLines}

\* line.trim() is not empty
NonBlank(line) == line.k # "blank"

\* content.split('\n').filter(line => line.trim())
SplitLines(content) == SelectSeq(content, NonBlank)

\* JSON.parse(line) returns a value
JsonParses(line) == line.k = "json"

\* JSON.parse(line)
JsonParse(line) ==
    [type |-> line.type, timestamp |-> line.timestamp,
     payload |-> [type |-> line.payloadType, info |-> line.info,
                  rate_limits |-> line.rate_limits]]

\* mutant: the payload type is not looked at
IsTokenCountEventAnyPayload(rec) == rec.type = "event_msg"

\* record.type === 'event_msg' && record.payload?.type === 'token_count'
IsTokenCountEvent(rec) ==
    rec.type = "event_msg" /\ rec.payload.type = "token_count"

\* record.timestamp.replace(...) throws unless the timestamp is a string
TimestampIsString(rec) == rec.timestamp.k \in {"iso", "bad"}

\* mutant: the last qualifying line replaces whatever was found before
IsNewerAlways(timestamp, latest) == TRUE

\* !latestTimestamp || timestamp > latestTimestamp
IsNewer(timestamp, latest) == latest = Null \/ Greater(timestamp, latest)

\* one pass of the loop body over a line, from the state st of the loop
ScanLineStep(st, line) ==
    IF ~JsonParses(line) THEN st
    ELSE LET rec == JsonParse(line)
         IN  IF ~IsTokenCountEvent(rec) THEN st
             ELSE IF ~TimestampIsString(rec) THEN st
             ELSE LET timestamp == ParseTimestamp(rec.timestamp)
                  IN  IF IsNewer(timestamp, st.latestTimestamp)
                      THEN [latestTimestamp |-> timestamp, latestRecord |-> rec]
                      ELSE st

\* lines 41-46 and 70-73: read the file and split it, or fail and return null
ReadFile ==
    /\ parsePc = "idle"
    /\ IF readable
       THEN /\ lines' = SplitLines(fileLines)
            /\ latestRecord' = Null
            /\ latestTimestamp' = Null
            /\ parsePc' = "loop"
            /\ UNCHANGED parsed
       ELSE /\ parsed' = Null
            /\ parsePc' = "done"
            /\ UNCHANGED <<lines, latestRecord, latestTimestamp>>
    /\ UNCHANGED <<fileLines, readable, normVars, resolveVars>>
    /\ UNCHANGED <<previous, uiVars>>

\* lines 48-67: one iteration of the loop
ScanLine ==
    /\ parsePc = "loop"
    /\ lines # <<>>
    /\ LET st == ScanLineStep([latestTimestamp |-> latestTimestamp,
                               latestRecord |-> latestRecord], Head(lines))
       IN  /\ latestTimestamp' = st.latestTimestamp
           /\ latestRecord' = st.latestRecord
    /\ lines' = Tail(lines)
    /\ UNCHANGED <<fileLines, readable, parsePc, parsed, normVars, resolveVars>>
    /\ UNCHANGED <<previous, uiVars>>

\* line 69
ReturnLatest ==
    /\ parsePc = "loop"
    /\ lines = <<>>
    /\ parsed' = latestRecord
    /\ parsePc' = "done"
    /\ UNCHANGED <<fileLines, readable, lines, latestRecord, latestTimestamp, normVars, resolveVars>>
    /\ UNCHANGED <<previous, uiVars>>

InitParse ==
    /\ fileLines \in Files
    /\ readable \in BOOLEAN
    /\ lines = <<>>
    /\ latestRecord = Null
    /\ latestTimestamp = Null
    /\ parsePc = "idle"
    /\ parsed = Null
    /\ clock = 0
    /\ record = NoRecord
    /\ pc = "idle"
    /\ data = Undefined
    /\ calcNow = NoReading
    /\ result = Null
    /\ NoResolver
    /\ NoUi

NextParse == ReadFile \/ ScanLine \/ ReturnLatest

SpecParse == InitParse /\ [][NextParse]_vars

\* the positions of the file's qualifying lines
QualifyingLines ==
    {i \in DOMAIN fileLines :
        /\ JsonParses(fileLines[i])
        /\ fileLines[i].type = "event_msg"
        /\ fileLines[i].payloadType = "token_count"}

\* the instant a timestamp string denotes
InstantOf(ts) == ts.sec * 1000 + ts.ms

\* every qualifying line has a parseable timestamp, no two of them the same
DistinctParseableTimestamps ==
    /\ \A i \in QualifyingLines : fileLines[i].timestamp.k = "iso"
    /\ \A i, j \in QualifyingLines :
           i # j => InstantOf(fileLines[i].timestamp) # InstantOf(fileLines[j].timestamp)

\* C10: for a readable file whose qualifying lines have parseable, pairwise
\* distinct timestamps, parseSessionFile returns the qualifying record with
\* the greatest timestamp whatever the order of the lines (and null when the
\* file has no qualifying line).
C10_LatestRecordOfFile ==
    (parsePc = "done" /\ readable /\ DistinctParseableTimestamps) =>
        IF QualifyingLines = {} THEN parsed = Null
        ELSE \E m \in QualifyingLines :
                /\ \A j \in QualifyingLines :
                       InstantOf(fileLines[j].timestamp)
                           <= InstantOf(fileLines[m].timestamp)
                /\ parsed = JsonParse(fileLines[m])

\* C10 witness: three qualifying lines in the order T3, T1, T2; the record of
\* the first line is returned.
C10_Witness ==
    /\ parsePc = "done" /\ readable
    /\ Len(fileLines) = 3
    /\ QualifyingLines = {1, 2, 3}
    /\ fileLines[1].timestamp = IsoString(20, 0)
    /\ fileLines[2].timestamp = IsoString(0, 0)
    /\ fileLines[3].timestamp = IsoString(10, 500)
    /\ parsed # Null
    /\ parsed.timestamp = IsoString(20, 0)

----------------------------------------------------------------------------
(* parseSessionFile as a function of the file *)

\* the loop of lines 48-67 over the lines sq, from the loop state st
RECURSIVE ScanAll(_, _)
ScanAll(st, sq) ==
    IF sq = <<>> THEN st ELSE ScanAll(ScanLineStep(st, Head(sq)), Tail(sq))

\* what parseSessionFile returns for a readable file with this content
LatestRecordOf(content) ==
    ScanAll([latestTimestamp |-> Null, latestRecord |-> Null],
            SplitLines(content)).latestRecord

\* the line is JSON of the telemetry-event shape (leaving the timestamp aside)
HasEventShape(line) ==
    /\ line.k = "json"
    /\ line.type = "event_msg"
    /\ line.payloadType = "token_count"

\* the line is JSON of the telemetry-event shape with a string timestamp
HasEventShapeAndTimestamp(line) ==
    HasEventShape(line) /\ line.timestamp.k \in {"iso", "bad"}

\* C11: parseSessionFile returns for every readable file what it returns for
\* the same file without the lines that fail JSON parsing or do not have the
\* telemetry-event shape, wherever those lines are (a truncated last line
\* included).
C11_MalformedLinesIgnored ==
    (parsePc = "done" /\ readable) =>
        /\ parsed = LatestRecordOf(SelectSeq(fileLines, HasEventShape))
        /\ parsed = LatestRecordOf(SelectSeq(fileLines, HasEventShapeAndTimestamp))

\* C11 witness: a qualifying line followed by a later-stamped line of another
\* payload type and a truncated last line; the qualifying record is returned.
C11_Witness ==
    /\ parsePc = "done" /\ readable
    /\ Len(fileLines) = 3
    /\ HasEventShapeAndTimestamp(fileLines[1])
    /\ fileLines[2] = JsonLine("event_msg", "agent_message", IsoString(30, 0))
    /\ fileLines[3] = MalformedLine
    /\ parsed = JsonParse(fileLines[1])

\* C12: a line of the qualifying shape whose timestamp string is no instant is
\* never returned, and wherever it is it does not keep a qualifying line with
\* a valid timestamp of the same file from being returned.
C12_BadTimestampIneligible ==
    (parsePc = "done" /\ readable) =>
        /\ parsed # Null => parsed.timestamp.k = "iso"
        /\ (\E i \in DOMAIN fileLines :
                HasEventShape(fileLines[i]) /\ fileLines[i].timestamp.k = "iso")
               => parsed # Null

----------------------------------------------------------------------------
(* The session directory: <root>/<YYYY>/<MM>/<DD>/rollout-*.jsonl           *)
(* A day directory is named by its calendar day, counted in days since the *)
(* epoch; a file by a number; glob lists the files of a directory in the   *)
(* order of their names.                                                   *)

MaxFiles == 2
LookBackDays == 7

FileNames == 1..MaxFiles

\* the calendar day of an instant
DayOf(ms) == ms \div (24 * 60 * 60 * 1000)

\* the instant of the queries of this directory: noon of day 10
ResolveClock == 10 * (24 * 60 * 60 * 1000) + 12 * (60 * 60 * 1000)

\* the record a session writes into file f
RecordOfFile(f) ==
    TokenCountRecord(IsoString(f, 0), Undefined,
        [primary |-> RawWindow(Num(50), Num(1800), Undefined, Num(60)),
         secondary |-> Undefined])

ContentWithRecord(f) == <<MalformedLine, LineOf(RecordOfFile(f)), BlankLine>>
ContentWithoutRecord ==
    <<JsonLine("event_msg", "agent_message", IsoString(30, 0)), MalformedLine>>

AbsentFile ==
    [exists |-> FALSE, matches |-> FALSE, statOk |-> FALSE, readable |-> FALSE,
     hasRecord |-> FALSE, dir |-> 0, mtimeMs |-> 0]

\* kinds of existing files: a rollout file with a record, one without, one
\* that cannot be read, one that is gone when stat and read get to it, and a
\* file with a record whose name is not rollout-*.jsonl
FileKinds ==
    {[matches |-> TRUE, statOk |-> TRUE, readable |-> TRUE, hasRecord |-> TRUE],
     [matches |-> TRUE, statOk |-> TRUE, readable |-> TRUE, hasRecord |-> FALSE],
     [matches |-> TRUE, statOk |-> TRUE, readable |-> FALSE, hasRecord |-> TRUE],
     [matches |-> TRUE, statOk |-> FALSE, readable |-> FALSE, hasRecord |-> FALSE],
     [matches |-> FALSE, statOk |-> TRUE, readable |-> TRUE, hasRecord |-> TRUE]}

\* day directories: today, six days back and seven days back
DirDays ==
    {DayOf(ResolveClock), DayOf(ResolveClock) - (LookBackDays - 1),
     DayOf(ResolveClock) - LookBackDays}

\* modification times: 30 minutes, exactly one hour and two hours ago
MtimeValues ==
    {ResolveClock - 30 * 60 * 1000, ResolveClock - 60 * 60 * 1000,
     ResolveClock - 2 * 60 * 60 * 1000}

FileDescriptors ==
    {AbsentFile} \cup
    {[exists |-> TRUE, matches |-> kd.matches, statOk |-> kd.statOk,
      readable |-> kd.readable, hasRecord |-> kd.hasRecord,
      dir |-> d, mtimeMs |-> m] :
        kd \in FileKinds, d \in DirDays, m \in MtimeValues}

\* the text of file f
ContentOf(f) ==
    IF files[f].hasRecord THEN ContentWithRecord(f) ELSE ContentWithoutRecord

\* fs.existsSync(datePath)
DirExists(day) == \E f \in FileNames : files[f].exists /\ files[f].dir = day

\* the ascending sequence of the numbers in S
RECURSIVE SeqOfSet(_)
SeqOfSet(S) ==
    IF S = {} THEN <<>>
    ELSE LET m == CHOOSE x \in S : \A y \in S : x <= y
         IN  <<m>> \o SeqOfSet(S \ {m})

\* glob(<datePath>/rollout-*.jsonl, { nodir: true })
Glob(day) ==
    SeqOfSet({f \in FileNames :
                 files[f].exists /\ files[f].matches /\ files[f].dir = day})

\* insert f into sq, sorted by mtimeMs descending, after the entries that do
\* not sort behind it (Array.prototype.sort is stable)
RECURSIVE InsertByMtime(_, _)
InsertByMtime(f, sq) ==
    IF sq = <<>> THEN <<f>>
    ELSE IF files[Head(sq)].mtimeMs >= files[f].mtimeMs
         THEN <<Head(sq)>> \o InsertByMtime(f, Tail(sq))
         ELSE <<f>> \o sq

\* sq.sort((a, b) => b.mtimeMs - a.mtimeMs)
RECURSIVE SortByMtimeDesc(_)
SortByMtimeDesc(sq) ==
    IF sq = <<>> THEN <<>>
    ELSE InsertByMtime(sq[Len(sq)], SortByMtimeDesc(SubSeq(sq, 1, Len(sq) - 1)))

\* the files of sq whose stat succeeds
StatOk(f) == files[f].statOk
Stated(sq) == SelectSeq(sq, StatOk)

Thrown == [k |-> "thrown", v |-> 0]

\* mutant: a read failure is not caught inside parseSessionFile
parseSessionFileNoCatch(f) ==
    IF files[f].readable THEN LatestRecordOf(ContentOf(f)) ELSE Thrown

\* parseSessionFile(file): the latest record, or null, also on a read failure
parseSessionFile(f) ==
    IF files[f].readable THEN LatestRecordOf(ContentOf(f)) ELSE Null

\* stats.mtimeMs >= oneHourAgoMs
IsRecent(mtimeMs, nowMs) == mtimeMs >= nowMs - 60 * 60 * 1000

\* mutant: the recent files are scanned in the order glob lists them
RecentFilesUnsorted(nowMs, todayDay) ==
    LET recent(f) == IsRecent(files[f].mtimeMs, nowMs)
    IN  SelectSeq(Stated(Glob(todayDay)), recent)

\* lines 138-151: the recent files of today's directory, newest first
RecentFiles(nowMs, todayDay) ==
    LET recent(f) == IsRecent(files[f].mtimeMs, nowMs)
    IN  SortByMtimeDesc(SelectSeq(Stated(Glob(todayDay)), recent))

\* mutant: the look-back goes one day further
LookBackOneMore(todayDay) == [i \in 1..(LookBackDays + 1) |-> todayDay - (i - 1)]

\* lines 80-88: the day directories of the look-back, today first
LookBack(todayDay) == [i \in 1..LookBackDays |-> todayDay - (i - 1)]

\* lines 90-109: the stat'ed rollout files of the day directories ds, in order
RECURSIVE CollectFiles(_)
CollectFiles(ds) ==
    IF ds = <<>> THEN <<>>
    ELSE (IF DirExists(Head(ds)) THEN Stated(Glob(Head(ds))) ELSE <<>>)
         \o CollectFiles(Tail(ds))

\* mutant: the files of the look-back stay in directory order
getSessionFilesUnsorted(todayDay) == CollectFiles(LookBack(todayDay))

\* getSessionFilesWithMtime
getSessionFilesWithMtime(todayDay) ==
    SortByMtimeDesc(CollectFiles(LookBack(todayDay)))

----------------------------------------------------------------------------
(* findLatestTokenCountRecord *)

PathMissingMessage == "Session path does not exist"
ReadErrorMessage == "Error reading session file"
SearchErrorMessage == "Error searching today's session files"

\* { file, record }
FileAndRecord(f, rec) == [file |-> f, record |-> rec]

\* lines 283-290: an exception becomes found: false with its message
Failed(message) == [found |-> FALSE, data |-> Undefined, error |-> message]

\* the messages parseSessionFile logs for file f
ReadLogOf(f) == IF files[f].readable THEN {} ELSE {ReadErrorMessage}

\* lines 116-151: the root check, then the recent files of today's directory
FindStart ==
    /\ findPc = "start"
    /\ IF ~rootExists
       THEN /\ logged' = logged \cup {PathMissingMessage}
            /\ winner' = Null
            /\ findPc' = "return"
            /\ UNCHANGED todo
       ELSE /\ todo' = IF DirExists(DayOf(clock))
                       THEN RecentFiles(clock, DayOf(clock))
                       ELSE <<>>
            /\ findPc' = "phase1"
            /\ UNCHANGED <<winner, logged>>
    /\ UNCHANGED <<rootExists, files, attemptedFiles, readLog, normVars, parseVars>>
    /\ UNCHANGED <<previous, uiVars>>

\* mutant: no file counts as attempted
AlreadyAttemptedNever(file) == FALSE

\* attemptedFiles.has(file)
AlreadyAttempted(file) == file \in attemptedFiles

\* mutant: reading a file in phase 1 sets its modification time
Phase1ReadTouching ==
    /\ findPc = "phase1"
    /\ todo # <<>>
    /\ LET file == Head(todo)
           rec == parseSessionFile(file)
       IN  /\ attemptedFiles' = attemptedFiles \cup {file}
           /\ readLog' = Append(readLog, file)
           /\ files' = [files EXCEPT ![file].mtimeMs = clock]
           /\ IF rec # Null
              THEN /\ winner' = FileAndRecord(file, rec)
                   /\ findPc' = "return"
                   /\ UNCHANGED <<todo, logged>>
              ELSE /\ todo' = Tail(todo)
                   /\ logged' = logged \cup ReadLogOf(file)
                   /\ UNCHANGED <<winner, findPc>>
    /\ UNCHANGED <<rootExists, normVars, parseVars, previous, uiVars>>

\* lines 153-162: one iteration of the loop over recentFiles
Phase1Read ==
    /\ findPc = "phase1"
    /\ todo # <<>>
    /\ LET file == Head(todo)
           rec == parseSessionFile(file)
       IN  /\ attemptedFiles' = attemptedFiles \cup {file}
           /\ readLog' = Append(readLog, file)
           /\ IF rec = Thrown
              THEN /\ logged' = logged \cup {SearchErrorMessage}
                   /\ todo' = <<>>
                   /\ UNCHANGED <<winner, findPc>>
              ELSE IF rec # Null
              THEN /\ winner' = FileAndRecord(file, rec)
                   /\ findPc' = "return"
                   /\ UNCHANGED <<todo, logged>>
              ELSE /\ todo' = Tail(todo)
                   /\ logged' = logged \cup ReadLogOf(file)
                   /\ UNCHANGED <<winner, findPc>>
    /\ UNCHANGED <<rootExists, files, normVars, parseVars>>
    /\ UNCHANGED <<previous, uiVars>>

\* line 165: phase 1 found nothing, the files of the look-back are collected
Phase2Start ==
    /\ findPc = "phase1"
    /\ todo = <<>>
    /\ todo' = getSessionFilesWithMtime(DayOf(clock))
    /\ findPc' = "phase2"
    /\ UNCHANGED <<rootExists, files, attemptedFiles, readLog, winner, logged,
                   normVars, parseVars>>
    /\ UNCHANGED <<previous, uiVars>>

\* lines 167-176: one iteration of the loop over sessionFiles
Phase2Read ==
    /\ findPc = "phase2"
    /\ todo # <<>>
    /\ LET file == Head(todo)
           rec == parseSessionFile(file)
       IN  IF AlreadyAttempted(file)
           THEN /\ todo' = Tail(todo)
                /\ UNCHANGED <<readLog, winner, findPc, logged, result>>
           ELSE /\ readLog' = Append(readLog, file)
                /\ IF rec = Thrown
                   THEN /\ result' = Failed(ReadErrorMessage)
                        /\ findPc' = "done"
                        /\ UNCHANGED <<todo, winner, logged>>
                   ELSE IF rec # Null
                   THEN /\ winner' = FileAndRecord(file, rec)
                        /\ findPc' = "return"
                        /\ UNCHANGED <<todo, logged, result>>
                   ELSE /\ todo' = Tail(todo)
                        /\ logged' = logged \cup ReadLogOf(file)
                        /\ UNCHANGED <<winner, findPc, result>>
    /\ UNCHANGED <<rootExists, files, attemptedFiles, clock, record, pc, data,
                   calcNow, parseVars>>
    /\ UNCHANGED <<previous, uiVars>>

\* line 178: no file of the look-back yielded a record
Phase2End ==
    /\ findPc = "phase2"
    /\ todo = <<>>
    /\ winner' = Null
    /\ findPc' = "return"
    /\ UNCHANGED <<rootExists, files, todo, attemptedFiles, readLog, logged,
                   normVars, parseVars>>
    /\ UNCHANGED <<previous, uiVars>>

\* line 188: getRateLimitData receives the answer
FindReturn ==
    /\ findPc = "return"
    /\ record' = IF winner = Null THEN NoRecord ELSE winner.record
    /\ pc' = "idle"
    /\ findPc' = "done"
    /\ UNCHANGED <<clock, data, calcNow, result, rootExists, files, todo,
                   attemptedFiles, readLog, winner, logged, parseVars>>
    /\ UNCHANGED <<previous, uiVars>>

InitResolve ==
    /\ clock = ResolveClock
    /\ record = NoRecord
    /\ pc = "resolving"
    /\ data = Undefined
    /\ calcNow = NoReading
    /\ result = Null
    /\ fileLines = <<>>
    /\ readable = TRUE
    /\ lines = <<>>
    /\ latestRecord = Null
    /\ latestTimestamp = Null
    /\ parsePc = "idle"
    /\ parsed = Null
    /\ rootExists \in BOOLEAN
    /\ files \in [FileNames -> FileDescriptors]
    /\ ~rootExists => \A f \in FileNames : ~files[f].exists
    /\ findPc = "start"
    /\ todo = <<>>
    /\ attemptedFiles = {}
    /\ readLog = <<>>
    /\ winner = Null
    /\ logged = {}
    /\ NoUi

NextResolve ==
    \/ FindStart \/ Phase1Read \/ Phase2Start \/ Phase2Read \/ Phase2End
    \/ FindReturn \/ BeginQuery \/ ProcessPrimary \/ ProcessSecondary

SpecResolve == InitResolve /\ [][NextResolve]_vars

----------------------------------------------------------------------------
(* the resolver's answer *)

Today == DayOf(clock)
OneHourMs == 60 * 60 * 1000

\* the resolver has answered, or the query has ended with an exception
ResolverDone == findPc = "done"
QueryThrew == result = Failed(ReadErrorMessage)
QueryReturned == findPc = "done" /\ pc = "idle" /\ result # Null

\* file f is a rollout file the directory scan can list and stat
Candidate(f) == files[f].exists /\ files[f].matches /\ files[f].statOk
InLookBack(f) == files[f].dir <= Today /\ files[f].dir > Today - 7
WithinLastHour(f) == files[f].mtimeMs >= clock - OneHourMs
HoldsRecord(f) == files[f].hasRecord
Yields(f) == files[f].readable /\ HoldsRecord(f)

\* the files phase 1 is about and the ones phase 2 is about
RecentToday == {f \in FileNames :
                   Candidate(f) /\ files[f].dir = Today /\ WithinLastHour(f)}
LookBackCandidates == {f \in FileNames : Candidate(f) /\ InLookBack(f)}

Newest(f, S) == \A g \in S : files[g].mtimeMs <= files[f].mtimeMs
ReadFiles == {readLog[i] : i \in 1..Len(readLog)}

\* C13: a file that cannot be read is treated as a file without a record:
\* the query does not end with the read error, no file is read twice, every
\* unreadable file that was read is followed by the next candidates until one
\* yields a record (the file returned is readable, is the newest yielding one
\* of its phase, and with no yielding candidate every candidate was read), and
\* the outcome is found: false when no candidate could be read
C13_ReadFailureNonFatal ==
    ResolverDone =>
        /\ ~QueryThrew
        /\ \A i, j \in 1..Len(readLog) : readLog[i] = readLog[j] => i = j
        /\ winner # Null =>
              /\ Yields(winner.file)
              /\ LET S == IF \E g \in RecentToday : Yields(g)
                          THEN {g \in RecentToday : Yields(g)}
                          ELSE {g \in LookBackCandidates : Yields(g)}
                 IN  winner.file \in S /\ Newest(winner.file, S)
        /\ winner = Null =>
              /\ \A f \in LookBackCandidates : ~Yields(f) /\ f \in ReadFiles
              /\ QueryReturned => result = NotFound

\* an unreadable file was read and the scan went on to a file with a record
C13_Witness ==
    /\ QueryReturned
    /\ winner # Null
    /\ \E i \in 1..Len(readLog) :
          /\ ~files[readLog[i]].readable
          /\ HoldsRecord(readLog[i])
          /\ i < Len(readLog)

\* C14: when a rollout file of today's directory modified within the last
\* hour yields a record, the newest such file is returned, and no file of an
\* earlier day and no file older than one hour is read
C14_FastPath ==
    LET S == {f \in RecentToday : Yields(f)}
    IN  (ResolverDone /\ S # {}) =>
            /\ winner # Null
            /\ winner.file \in S
            /\ Newest(winner.file, S)
            /\ \A f \in ReadFiles : files[f].dir = Today /\ WithinLastHour(f)

\* two recent files of today yield a record, at different modification times,
\* and an older file with a record exists in the look-back
C14_Witness ==
    /\ ResolverDone
    /\ winner # Null
    /\ \E f, g \in RecentToday :
          /\ Yields(f) /\ Yields(g)
          /\ files[f].mtimeMs < files[g].mtimeMs
          /\ winner.file = g
          /\ f < g

\* C15: when phase 1 returns nothing, the newest candidate of the look-back
\* that yields a record is returned, and nothing is returned only when no
\* candidate of the look-back yields a record
C15_Fallback ==
    LET S == {f \in LookBackCandidates : Yields(f)}
    IN  (ResolverDone /\ ~QueryThrew /\ ~\E f \in RecentToday : Yields(f)) =>
            /\ winner = Null <=> S = {}
            /\ winner # Null => winner.file \in S /\ Newest(winner.file, S)

\* phase 1 read a file without finding a record and phase 2 returned the
\* newer of two yielding files, which directory order lists second
C15_Witness ==
    /\ ResolverDone
    /\ winner # Null
    /\ ~\E f \in RecentToday : Yields(f)
    /\ \E f, g \in LookBackCandidates :
          /\ Yields(f) /\ Yields(g)
          /\ files[f].mtimeMs < files[g].mtimeMs
          /\ files[f].dir > files[g].dir
          /\ winner.file = g

\* C16: no candidate of the look-back that yields a record was modified later
\* than the file returned
C16_GlobalMtimeFirst ==
    (ResolverDone /\ winner # Null) =>
        Newest(winner.file, {f \in LookBackCandidates : Yields(f)})

\* C17: only rollout files of the directories of today and the six days
\* before are read or returned, a missing day directory does not end the
\* query with an error, and a record found only in a directory seven or more
\* days old gives found: false
C17_SevenDayLookBack ==
    /\ \A f \in ReadFiles : files[f].exists /\ files[f].matches /\ InLookBack(f)
    /\ winner # Null => InLookBack(winner.file)
    /\ (ResolverDone /\ \E d \in (Today - 6)..Today : ~DirExists(d)) => ~QueryThrew
    /\ (QueryReturned /\ \A f \in FileNames : Yields(f) => ~InLookBack(f))
          => result = NotFound

\* a readable rollout file with a record lies in the directory seven days
\* back, today's directory is missing, and the query returned found: false
C17_Witness ==
    /\ QueryReturned
    /\ result = NotFound
    /\ ~DirExists(Today)
    /\ \E f \in FileNames :
          Candidate(f) /\ Yields(f) /\ files[f].dir = Today - 7
    /\ \E f \in FileNames : Candidate(f) /\ files[f].dir = Today - 6

\* C18: with no root directory the query reads no file, does not throw, and
\* returns found: false with a reason naming the missing path
C18_MissingRootReasonNamesPath ==
    (~rootExists /\ QueryReturned) =>
        /\ readLog = <<>>
        /\ result.found = FALSE
        /\ result.error = "Session path does not exist"

\* C18, as the code has it: with no root directory the query reads no file,
\* does not throw, logs the missing path, and returns found: false with the
\* reason it gives whenever no record was found
C18_MissingRootIsNoDataFound ==
    (~rootExists /\ findPc # "start") =>
        /\ readLog = <<>>
        /\ "Session path does not exist" \in logged
        /\ ~QueryThrew
        /\ QueryReturned =>
              /\ result.found = FALSE
              /\ result.error = "No token_count events found in session files"

C18_Witness == ~rootExists /\ QueryReturned

----------------------------------------------------------------------------
(* Usage numbers of the snapshot *)

TotalUsageSample ==
    [input_tokens |-> 1200, cached_input_tokens |-> 800, output_tokens |-> 300,
     reasoning_output_tokens |-> 100, total_tokens |-> 1500]
LastUsageSample ==
    [input_tokens |-> 200, cached_input_tokens |-> 0, output_tokens |-> 50,
     reasoning_output_tokens |-> 0, total_tokens |-> 250]

\* payload.info: missing, null, or with each usage missing, null or present
InfoValues ==
    {Undefined, Null} \cup
    {[total_token_usage |-> t, last_token_usage |-> l] :
        t \in {Undefined, Null, TotalUsageSample},
        l \in {Undefined, Null, LastUsageSample}}

RateLimitsValues ==
    {Undefined,
     [primary |-> RawWindow(Num(50), Num(1800), Undefined, Num(60)),
      secondary |-> Undefined],
     [primary |-> RawWindow(Num(50), Num(1800), Undefined, Num(60)),
      secondary |-> RawWindow(Num(20), Undefined, Num(3600), Num(10080))]}

UsageRecords ==
    {TokenCountRecord(ts, info, rl) :
        ts \in {IsoString(0, 0), BadString},
        info \in InfoValues, rl \in RateLimitsValues}

InitUsage ==
    /\ clock \in ClockValues
    /\ record \in UsageRecords
    /\ pc = "idle"
    /\ data = Undefined
    /\ calcNow = NoReading
    /\ result = Null
    /\ fileLines = <<>>
    /\ readable = TRUE
    /\ lines = <<>>
    /\ latestRecord = Null
    /\ latestTimestamp = Null
    /\ parsePc = "idle"
    /\ parsed = Null
    /\ NoResolver
    /\ NoUi

SpecUsage == InitUsage /\ [][Next]_vars

\* the usage named field is missing from the winning record
UsageMissing(field) ==
    \/ record.payload.info \in {Undefined, Null}
    \/ record.payload.info[field] \in {Undefined, Null}

\* C19: a query on a record with missing usage numbers returns found: true;
\* total_usage and last_usage are each, on their own, all zero when missing
\* from payload.info and the reported usage when present
C19_MissingUsageIsZero ==
    (pc = "idle" /\ result # Null) =>
        /\ result.found
        /\ result.data.total_usage =
              IF UsageMissing("total_token_usage")
              THEN [input_tokens |-> 0, cached_input_tokens |-> 0,
                    output_tokens |-> 0, reasoning_output_tokens |-> 0,
                    total_tokens |-> 0]
              ELSE record.payload.info.total_token_usage
        /\ result.data.last_usage =
              IF UsageMissing("last_token_usage")
              THEN [input_tokens |-> 0, cached_input_tokens |-> 0,
                    output_tokens |-> 0, reasoning_output_tokens |-> 0,
                    total_tokens |-> 0]
              ELSE record.payload.info.last_token_usage

\* a snapshot of a record that reports the total usage but not the last one
C19_Witness ==
    /\ pc = "idle"
    /\ result # Null
    /\ record.payload.info \notin {Undefined, Null}
    /\ record.payload.info.total_token_usage = TotalUsageSample
    /\ record.payload.info.last_token_usage = Undefined
    /\ result.data.total_usage = TotalUsageSample
    /\ result.data.last_usage.total_tokens = 0

\* C20: each window is in the snapshot exactly when the winning record's
\* rate_limits reports it; a window that is not reported, or any window of a
\* record without rate_limits, is absent
C20_WindowPresentIffReported ==
    Returned =>
        \A w \in WindowNames :
            result.data[w] # Undefined
                <=> /\ record.payload.rate_limits # Undefined
                    /\ record.payload.rate_limits[w] # Undefined

\* one window reported and present, the other neither
C20_Witness ==
    /\ Returned
    /\ record.payload.rate_limits # Undefined
    /\ record.payload.rate_limits.primary = Undefined
    /\ record.payload.rate_limits.secondary # Undefined
    /\ result.data.primary = Undefined
    /\ result.data.secondary # Undefined

----------------------------------------------------------------------------
(* The outcome of a query *)

\* every field of RateLimitData is set, and a window has its five fields
CompleteSnapshot(d) ==
    /\ d # Undefined
    /\ \A f \in {"file_path", "record_timestamp", "current_time",
                 "total_usage", "last_usage"} :
          f \in DOMAIN d /\ d[f] # Undefined
    /\ DOMAIN d.total_usage = DOMAIN createEmptyTokenUsage
    /\ DOMAIN d.last_usage = DOMAIN createEmptyTokenUsage
    /\ \A w \in WindowNames :
          d[w] # Undefined =>
              DOMAIN d[w] = {"used_percent", "time_percent", "reset_time",
                             "outdated", "window_minutes"}

\* C21: a query ends in one of two outcomes: found with a complete snapshot
\* and no error, or not found with an error reason and no snapshot; a query
\* that raised an exception ends in the second, with the exception's message
C21_TwoOutcomes ==
    /\ result # Null =>
          \/ /\ result.found
             /\ result.error = Undefined
             /\ CompleteSnapshot(result.data)
          \/ /\ ~result.found
             /\ result.data = Undefined
             /\ result.error \in {"No token_count events found in session files",
                                  ReadErrorMessage}
    /\ (findPc = "done" /\ pc = "resolving") => QueryThrew

\* a query found a record with a window, another query of the same files
\* state would not: both outcomes are reached
C21_Witness ==
    /\ QueryReturned
    /\ result.found
    /\ result.data.primary # Undefined
    /\ result.data.file_path.file \in FileNames
    /\ \E f \in FileNames : ~files[f].readable /\ f \in ReadFiles

----------------------------------------------------------------------------
(* A session of queries over the same log hierarchy *)

\* getRateLimitData is called again once the call before has ended
NewQuery ==
    /\ findPc = "done"
    /\ pc = "idle" \/ QueryThrew
    /\ pc' = "resolving"
    /\ findPc' = "start"
    /\ record' = NoRecord
    /\ data' = Undefined
    /\ calcNow' = NoReading
    /\ result' = Null
    /\ todo' = <<>>
    /\ attemptedFiles' = {}
    /\ readLog' = <<>>
    /\ winner' = Null
    /\ UNCHANGED <<clock, rootExists, files, logged, parseVars, previous, uiVars>>

NextSession == NextResolve \/ NewQuery

SpecSession == InitResolve /\ [][NextSession]_vars

\* C22: no step of a query, whatever its outcome, changes a file or a
\* directory under the session root
C22_LogHierarchyUnchanged ==
    [][files' = files /\ rootExists' = rootExists]_vars

\* a query read two files, one of them unreadable, and returned; the log of
\* an earlier step of the session is kept
C22_Witness ==
    /\ QueryReturned
    /\ Len(readLog) >= 2
    /\ ReadErrorMessage \in logged

\* C25: no file is handed to the reader twice in a query: the files read in
\* phase 1 are read once and phase 2 reads none of them again, and each other
\* file at most once
C25_NoFileReadTwice ==
    /\ Len(readLog) = Cardinality(ReadFiles)
    /\ attemptedFiles \subseteq ReadFiles
    /\ \A i \in 1..Len(readLog) :
          readLog[i] \in attemptedFiles <=> i <= Cardinality(attemptedFiles)

\* phase 1 read a file that failed to read, phase 2 listed it again, skipped
\* it and read another file
C25_Witness ==
    /\ findPc = "done"
    /\ \E f \in attemptedFiles : ~files[f].readable /\ f \in LookBackCandidates
    /\ Len(readLog) > Cardinality(attemptedFiles)

----------------------------------------------------------------------------
(* The refresh scheduler: utils/updateStats.ts and the listeners of activate *)

MaxUpdates == 3

\* values of the setting codexRatelimit.refreshInterval, in seconds
RefreshIntervalSettings ==
    {Undefined, Num(1), Num(5), Num(10), Num(3600), Num(7200)}

\* config.get(key, defaultValue)
ConfigGet(setting, defaultValue) ==
    IF setting = Undefined THEN defaultValue ELSE setting.v

\* getRefreshIntervalMs, with the setting as the configuration holds it
getRefreshIntervalMs(setting) ==
    LET configured == ConfigGet(setting, 10)
        intervalSeconds == IF configured >= 5 THEN configured ELSE 5
    IN  intervalSeconds * 1000

\* setInterval(callback, intervalMs): a new handle among the timers ts
SetInterval(ts, intervalMs) ==
    LET used == {t.id : t \in ts}
        id == CHOOSE i \in 1..(Cardinality(ts) + 1) :
                  i \notin used /\ \A j \in 1..(i - 1) : j \in used
    IN  [id |-> id, intervalMs |-> intervalMs]

\* mutant: the handle is forgotten but the interval is not cleared
ClearIntervalForgets(ts, handle) == ts

\* clearInterval(handle)
ClearInterval(ts, handle) == ts \ {handle}

\* the timers left by stopRefreshTimer
Stopped ==
    IF refreshTimer # Undefined THEN ClearInterval(timers, refreshTimer)
    ELSE timers

\* updateStats() is called: it runs up to its await of getRateLimitData
Calling(source, focused) ==
    inflight \cup {[n |-> started + 1, source |-> source, focused |-> focused]}

\* startRefreshTimer(), with the focus flag and the setting as they are then
startRefreshTimer(focused, setting) ==
    IF ~focused
    THEN /\ timers' = Stopped
         /\ refreshTimer' = Undefined
         /\ UNCHANGED <<started, inflight>>
    ELSE /\ started < MaxUpdates
         /\ LET t == SetInterval(Stopped, getRefreshIntervalMs(setting))
            IN  /\ timers' = Stopped \cup {t}
                /\ refreshTimer' = t
         /\ inflight' = Calling("start", focused)
         /\ started' = started + 1

\* stopRefreshTimer()
stopRefreshTimer ==
    /\ timers' = Stopped
    /\ refreshTimer' = Undefined
    /\ UNCHANGED <<started, inflight>>

engineVars == <<normVars, parseVars, resolveVars, previous>>

\* onDidChangeWindowState: setWindowFocused(e.focused)
SetWindowFocused ==
    \E focused \in BOOLEAN :
        /\ isWindowFocused' = focused
        /\ IF focused
           THEN startRefreshTimer(focused, refreshInterval)
           ELSE stopRefreshTimer
        /\ UNCHANGED <<refreshInterval, shown, engineVars>>

\* activate: startRefreshTimer()
StartRefreshTimer ==
    /\ startRefreshTimer(isWindowFocused, refreshInterval)
    /\ UNCHANGED <<isWindowFocused, refreshInterval, shown, engineVars>>

StopRefreshTimer ==
    /\ stopRefreshTimer
    /\ UNCHANGED <<isWindowFocused, refreshInterval, shown, engineVars>>

\* deactivate: cleanup()
Cleanup ==
    /\ refreshTimer' = Undefined
    /\ timers' = Stopped
    /\ UNCHANGED <<started, inflight, isWindowFocused, refreshInterval, shown,
                   engineVars>>

SettingKeys == {"refreshInterval", "color.enable"}

\* mutant: no change is taken for a change of the refresh interval
AffectsRefreshIntervalNever(key) == FALSE

\* e.affectsConfiguration('codexRatelimit.refreshInterval')
AffectsRefreshInterval(key) == key = "refreshInterval"

\* onDidChangeConfiguration, for a change of a setting of codexRatelimit
ConfigChange ==
    \E key \in SettingKeys, value \in RefreshIntervalSettings :
        /\ key = "refreshInterval" => value # refreshInterval
        /\ refreshInterval' = IF key = "refreshInterval" THEN value
                              ELSE refreshInterval
        /\ IF AffectsRefreshInterval(key)
           THEN startRefreshTimer(isWindowFocused, value)
           ELSE /\ started < MaxUpdates
                /\ inflight' = Calling("config", isWindowFocused)
                /\ started' = started + 1
                /\ UNCHANGED <<timers, refreshTimer>>
        /\ UNCHANGED <<isWindowFocused, shown, engineVars>>

\* the command codex-ratelimit.refreshStats
ManualRefresh ==
    /\ started < MaxUpdates
    /\ inflight' = Calling("manual", isWindowFocused)
    /\ started' = started + 1
    /\ UNCHANGED <<timers, refreshTimer, isWindowFocused, refreshInterval,
                   shown, engineVars>>

\* the callback of an interval timer runs
TimerTick ==
    /\ timers # {}
    /\ isWindowFocused
    /\ started < MaxUpdates
    /\ inflight' = Calling("tick", isWindowFocused)
    /\ started' = started + 1
    /\ UNCHANGED <<timers, refreshTimer, isWindowFocused, refreshInterval,
                   shown, engineVars>>

\* getRateLimitData resolves for one of the calls and it writes the status bar
CompleteUpdate ==
    \E u \in inflight :
        /\ inflight' = inflight \ {u}
        /\ shown' = u.n
        /\ UNCHANGED <<timers, refreshTimer, isWindowFocused, refreshInterval,
                       started, engineVars>>

InitTimer ==
    /\ clock = 0
    /\ record = NoRecord
    /\ pc = "idle"
    /\ data = Undefined
    /\ calcNow = NoReading
    /\ result = Null
    /\ fileLines = <<>>
    /\ readable = TRUE
    /\ lines = <<>>
    /\ latestRecord = Null
    /\ latestTimestamp = Null
    /\ parsePc = "idle"
    /\ parsed = Null
    /\ NoResolver
    /\ previous = Null
    /\ isWindowFocused = TRUE
    /\ refreshTimer = Undefined
    /\ timers = {}
    /\ refreshInterval \in RefreshIntervalSettings
    /\ started = 0
    /\ inflight = {}
    /\ shown = 0

NextTimer ==
    \/ SetWindowFocused \/ StartRefreshTimer \/ StopRefreshTimer \/ Cleanup
    \/ ConfigChange \/ ManualRefresh \/ TimerTick \/ CompleteUpdate

SpecTimer == InitTimer /\ [][NextTimer]_vars

----------------------------------------------------------------------------
(* Properties of the refresh scheduler *)

\* C23: at most one interval timer is set, none is set while the focus flag
\* is false, the handle held is the timer that is set, and no call of
\* updateStats made by a timer tick began while the flag was false
C23_OneTimerOnlyWhileFocused ==
    /\ Cardinality(timers) <= 1
    /\ ~isWindowFocused => timers = {}
    /\ timers = IF refreshTimer = Undefined THEN {} ELSE {refreshTimer}
    /\ \A u \in inflight : u.source = "tick" => u.focused

\* the window lost focus after a timer had been started and had ticked
C23_Witness ==
    /\ ~isWindowFocused
    /\ refreshTimer = Undefined
    /\ \E u \in inflight : u.source = "tick"

\* C24: the interval of a started timer is between 5 and 3600 seconds, and
\* 10 seconds when the setting is not configured
C24_IntervalInDocumentedRange ==
    \A t \in timers :
        /\ t.intervalMs >= 5 * 1000
        /\ t.intervalMs <= 3600 * 1000
        /\ refreshInterval = Undefined => t.intervalMs = 10 * 1000

\* C27: when no call of updateStats is pending, the status bar shows the
\* result of the call that started last
C27_LastStartedShown ==
    (inflight = {} /\ started > 0) => shown = started

\* C30: the period of every timer that is set is the configured refresh
\* interval, raised to the minimum of 5 seconds, 10 seconds when the setting
\* is not configured
C30_TimerFollowsSetting ==
    \A t \in timers :
        t.intervalMs =
            1000 * (IF refreshInterval = Undefined THEN 10
                    ELSE IF refreshInterval.v < 5 THEN 5
                    ELSE refreshInterval.v)

\* the window has focus again, with a timer of the interval configured now,
\* after at least two restarts
C30_Witness ==
    /\ isWindowFocused
    /\ refreshTimer # Undefined
    /\ refreshInterval = Num(3600)
    /\ refreshTimer.intervalMs = 3600 * 1000
    /\ started >= 2

----------------------------------------------------------------------------
(* Staleness within a snapshot and over repeated queries *)

\* C28: in a returned snapshot, a window whose reset instant resolved is
\* outdated exactly when its reset_time is before the snapshot's current_time
C28_OutdatedAgainstCurrentTime ==
    \A w \in WindowNames : (Present(w) /\ Resolved(w)) =>
        result.data[w].outdated =
            (result.data[w].reset_time.v < result.data.current_time.v)

\* records of one timestamp with a primary window, alone or with a second one
RepeatRecords ==
    {r \in Records :
        /\ r.timestamp = IsoString(0, 0)
        /\ r.payload.rate_limits # Undefined
        /\ r.payload.rate_limits.primary # Undefined
        /\ r.payload.rate_limits.secondary
              \in {Undefined, RawWindow(Num(50), Num(1800), Num(3600), Num(60))}}

InitRepeat ==
    /\ clock \in ClockValues
    /\ record \in RepeatRecords
    /\ pc = "idle"
    /\ data = Undefined
    /\ calcNow = NoReading
    /\ result = Null
    /\ fileLines = <<>>
    /\ readable = TRUE
    /\ lines = <<>>
    /\ latestRecord = Null
    /\ latestTimestamp = Null
    /\ parsePc = "idle"
    /\ parsed = Null
    /\ NoResolver
    /\ NoUi

NextRepeat == NextQuery \/ ProcessPrimary \/ ProcessSecondary \/ Tick

SpecRepeat == InitRepeat /\ [][NextRepeat]_vars

\* window w is in the snapshot returned now and in the one returned before
Repeated(w) ==
    /\ Present(w)
    /\ previous # Null
    /\ previous.data[w] # Undefined

\* C29: for a window with a positive window_minutes and a resolved reset
\* instant, the time_percent of a later query of the same record is not below
\* that of the query before, and a window reported outdated before is
\* reported outdated, with time_percent 100, afterwards
C29_TimePercentNeverDecreases ==
    \A w \in WindowNames :
        (Repeated(w) /\ PositiveWindow(w) /\ Resolved(w)) =>
            /\ previous.calcNow[w].v <= calcNow[w].v
            /\ ~PctLess(result.data[w].time_percent,
                        previous.data[w].time_percent)
            /\ previous.data[w].outdated =>
                  /\ result.data[w].outdated
                  /\ result.data[w].time_percent = Pct(100, 1)

\* two queries of a record: the window was half elapsed at the first and is
\* outdated, at 100, at the second
C29_Witness ==
    /\ Repeated("primary") /\ PositiveWindow("primary") /\ Resolved("primary")
    /\ ~previous.data.primary.outdated
    /\ previous.data.primary.time_percent = Pct(50, 1)
    /\ result.data.primary.outdated
    /\ result.data.primary.time_percent = Pct(100, 1)

----------------------------------------------------------------------------
(* The consumers of a snapshot: status bar, tooltip and detail panel *)

NotAvailable == [k |-> "N/A"]

\* `${Math.round(x)}%` (digits 0) and x.toFixed(1) + '%' (digits 1)
PercentText(x, digits) == [k |-> "percent", value |-> x, digits |-> digits]

\* mutant: the recorded usage is shown whether the window is outdated or not
DisplayedUsageStale(win) == win.used_percent

\* win.outdated ? 0 : win.used_percent
DisplayedUsage(win) == IF win.outdated THEN Num(0) ELSE win.used_percent

\* win.outdated ? 0 : win.time_percent
DisplayedTime(win) == IF win.outdated THEN Pct(0, 1) ELSE win.time_percent

\* updateStatusBar: primaryText / weeklyText
StatusBarText(win) ==
    IF win = Undefined THEN NotAvailable
    ELSE PercentText(DisplayedUsage(win), 0)

\* the threshold a usage percentage reaches, with the default thresholds
ColorLevel(percentage) ==
    IF percentage.k = "inf" \/ (percentage.k = "num" /\ percentage.v >= 90)
    THEN "critical"
    ELSE IF percentage.k = "num" /\ percentage.v >= 70 THEN "warning"
    ELSE "normal"

\* updateStatusBar: maxUsagePercent
MaxUsagePercent(d) ==
    LET afterPrimary == IF d.primary # Undefined
                        THEN MathMax(Num(0), DisplayedUsage(d.primary))
                        ELSE Num(0)
    IN  IF d.secondary # Undefined
        THEN MathMax(afterPrimary, DisplayedUsage(d.secondary))
        ELSE afterPrimary

\* createProgressBar(percentage, 'usage', outdated): fillColor
UsageFill(percentage, outdated) ==
    IF outdated THEN "#666" ELSE ColorLevel(percentage)

\* createMarkdownTooltip: the table of one window
TooltipOf(win) ==
    IF win = Undefined THEN Undefined
    ELSE [usage |-> IF win.outdated THEN NotAvailable
                    ELSE PercentText(DisplayedUsage(win), 1),
          time |-> IF win.outdated THEN NotAvailable
                   ELSE PercentText(DisplayedTime(win), 1),
          fill |-> UsageFill(DisplayedUsage(win), win.outdated)]

\* _getUsageClass(percentage, outdated)
UsageClass(percentage, outdated) ==
    IF outdated THEN "outdated" ELSE ColorLevel(percentage)

\* _renderProgressSection: the section of one window
PanelOf(win) ==
    IF win = Undefined THEN Undefined
    ELSE [usage |-> IF win.outdated THEN NotAvailable
                    ELSE PercentText(win.used_percent, 1),
          time |-> IF win.outdated THEN NotAvailable
                   ELSE PercentText(win.time_percent, 1),
          class |-> UsageClass(DisplayedUsage(win), win.outdated)]

\* what the consumers show of the snapshot d
Rendered(d) ==
    [k |-> "data", data |-> d,
     text |-> [w \in WindowNames |-> StatusBarText(d[w])],
     color |-> ColorLevel(MaxUsagePercent(d)),
     tooltip |-> [w \in WindowNames |-> TooltipOf(d[w])],
     panel |-> [w \in WindowNames |-> PanelOf(d[w])]]

\* showErrorState(message)
ErrorState(message) == [k |-> "error", message |-> message]

\* updateStats, after its await: the result of the query is displayed
UpdateDisplay ==
    /\ pc = "idle"
    /\ result # Null
    /\ shown' = IF ~result.found THEN ErrorState(result.error)
                ELSE Rendered(result.data)
    /\ UNCHANGED <<isWindowFocused, refreshTimer, timers, refreshInterval,
                   started, inflight, engineVars>>

\* the status bar item before its first update
NothingShown == [k |-> "none"]

DisplayRecords == {r \in Records \cup {NoRecord} :
                      r # NoRecord => r.timestamp = IsoString(0, 0)}

InitDisplay ==
    /\ clock \in ClockValues
    /\ record \in DisplayRecords
    /\ pc = "idle"
    /\ data = Undefined
    /\ calcNow = NoReading
    /\ result = Null
    /\ fileLines = <<>>
    /\ readable = TRUE
    /\ lines = <<>>
    /\ latestRecord = Null
    /\ latestTimestamp = Null
    /\ parsePc = "idle"
    /\ parsed = Null
    /\ NoResolver
    /\ previous = Null
    /\ isWindowFocused = TRUE
    /\ refreshTimer = Undefined
    /\ timers = {}
    /\ refreshInterval = Undefined
    /\ started = 0
    /\ inflight = {}
    /\ shown = NothingShown

NextDisplay ==
    BeginQuery \/ ProcessPrimary \/ ProcessSecondary \/ Tick \/ UpdateDisplay

SpecDisplay == InitDisplay /\ [][NextDisplay]_vars

\* window w of the snapshot on display is outdated
ShownOutdated(w) ==
    /\ shown.k = "data"
    /\ shown.data[w] # Undefined
    /\ shown.data[w].outdated

\* the usage of window w that may colour the status bar
FreshUsage(d, w) ==
    IF d[w] # Undefined /\ ~d[w].outdated /\ d[w].used_percent.k = "num"
       /\ d[w].used_percent.v > 0
    THEN d[w].used_percent.v ELSE 0

\* for an outdated window the tooltip and the panel show N/A for usage and
\* time, and no colour comes from its used_percent
OutdatedHiddenInDetail(w) ==
    /\ shown.tooltip[w].usage = NotAvailable
    /\ shown.tooltip[w].time = NotAvailable
    /\ shown.tooltip[w].fill = "#666"
    /\ shown.panel[w].usage = NotAvailable
    /\ shown.panel[w].time = NotAvailable
    /\ shown.panel[w].class = "outdated"
    /\ LET m == IF FreshUsage(shown.data, "primary")
                      >= FreshUsage(shown.data, "secondary")
                THEN FreshUsage(shown.data, "primary")
                ELSE FreshUsage(shown.data, "secondary")
       IN  shown.color = IF m >= 90 THEN "critical"
                         ELSE IF m >= 70 THEN "warning" ELSE "normal"

\* C26: for an outdated window the status-bar text, the tooltip and the
\* panel all show N/A, and its used_percent colours nothing
C26_OutdatedShownAsNotAvailable ==
    \A w \in WindowNames : ShownOutdated(w) =>
        /\ shown.text[w] = NotAvailable
        /\ OutdatedHiddenInDetail(w)

\* C26, as the code has it: for an outdated window the tooltip and the panel
\* show N/A for usage and time, the status-bar text shows 0%, and its
\* used_percent colours nothing
C26_OutdatedShownAsZeroOrNotAvailable ==
    \A w \in WindowNames : ShownOutdated(w) =>
        /\ shown.text[w] = [k |-> "percent", value |-> Num(0), digits |-> 0]
        /\ OutdatedHiddenInDetail(w)

\* an outdated window with a recorded usage of 150 is on display
C26_Witness ==
    /\ ShownOutdated("primary")
    /\ shown.data.primary.used_percent = Num(150)
    /\ shown.color = "normal"

====
